---- MODULE Spec2Model ----
(***************************************************************************)
(* A model of the programme-mapping tool (src/src/App.tsx): the state      *)
(* normalizer, the persistence effect, the item and programme editing      *)
(* handlers, the asynchronous JSON import, the derived view (coverage and   *)
(* observations) and the two exports.                                      *)
(*                                                                         *)
(* JavaScript values are tagged records, one field name per type, so that  *)
(* values of different types can be compared: [str |-> s], [num |-> n],    *)
(* [bool |-> b], [null |-> TRUE], [undef |-> TRUE], [arr |-> <<...>>] and  *)
(* [obj |-> f] with f a function from property names to values.            *)
(* The in-memory state keeps the typed shape of the source: a programme is *)
(* a record of six strings, an item a record with string id, type, name    *)
(* and notes and a domains map from property names to JavaScript values    *)
(* (the source spreads whatever the input carried into it).                *)
(* A text (a file's content, a storage entry) is [json |-> v] when it is   *)
(* the JSON encoding of v and [garbage |-> s] when it is not JSON at all.  *)
(***************************************************************************)
EXTENDS Integers, Sequences, FiniteSets, TLC

VARIABLES
    programme,      \* useState<ProgrammeDetails>
    items,          \* useState<MapItem[]>
    localStorage,   \* the browser's storage: key -> text
    pending,        \* the files whose read is in flight (await file.text())
    dialog,         \* the window.alert / window.confirm call of the latest handler
    download,       \* the file the latest handler handed to the browser
    arg,            \* input of a single call (used by SpecNorm and SpecView)
    res             \* result of a single call (used by SpecNorm and SpecView)

vars == <<programme, items, localStorage, pending, dialog, download, arg, res>>

---------------------------------------------------------------------------
(* Bounds *)

MaxItems == 2

---------------------------------------------------------------------------
(* JavaScript values *)

JStr(s) == [str |-> s]

JNum(n) == [num |-> n]

JBool(b) == [bool |-> b]

JNull == [null |-> TRUE]

Undefined == [undef |-> TRUE]

JArr(a) == [arr |-> a]

JObj(f) == [obj |-> f]

IsStr(v) == "str" \in DOMAIN v

IsNum(v) == "num" \in DOMAIN v

IsBool(v) == "bool" \in DOMAIN v

IsNull(v) == "null" \in DOMAIN v

IsUndef(v) == "undef" \in DOMAIN v

IsArr(v) == "arr" \in DOMAIN v

IsObj(v) == "obj" \in DOMAIN v

\* typeof v === "object" && v : objects and arrays (null is falsy)
IsObjectLike(v) == IsObj(v) \/ IsArr(v)

\* v?.k : the property k of v, undefined when v has none
Get(v, k) == IF IsObj(v) /\ k \in DOMAIN v.obj THEN v.obj[k] ELSE Undefined

\* JavaScript truthiness
Truthy(v) ==
    CASE IsBool(v) -> v.bool
      [] IsStr(v) -> v.str # ""
      [] IsNum(v) -> v.num # 0
      [] IsNull(v) -> FALSE
      [] IsUndef(v) -> FALSE
      [] OTHER -> TRUE

\* own enumerable property names of an array are its indices
IndexKey == <<"0", "1", "2", "3">>

\* the properties an object spread ...v copies
SpreadOf(v) ==
    IF IsObj(v) THEN v.obj
    ELSE IF IsArr(v)
         THEN [k \in {IndexKey[i] : i \in 1..Len(v.arr)} |->
                 v.arr[CHOOSE i \in 1..Len(v.arr) : IndexKey[i] = k]]
         ELSE <<>>

\* { ...f, ...g }
Merge(f, g) ==
    [k \in DOMAIN f \cup DOMAIN g |-> IF k \in DOMAIN g THEN g[k] ELSE f[k]]

---------------------------------------------------------------------------
(* Texts, JSON.parse and JSON.stringify *)

JsonText(v) == [json |-> v]

GarbageText(s) == [garbage |-> s]

EmptyText == GarbageText("")

NotJsonText == GarbageText("not json")

\* JSON.parse: throws on a text that is not JSON
JSONParse(t) ==
    IF "json" \in DOMAIN t THEN [ok |-> TRUE, value |-> t.json]
    ELSE [ok |-> FALSE, value |-> Undefined]

programmeJSON(p) == JObj([k \in DOMAIN p |-> JStr(p[k])])

itemJSON(it) ==
    JObj([id |-> JStr(it.id), type |-> JStr(it.type), name |-> JStr(it.name),
          notes |-> JStr(it.notes), domains |-> JObj(it.domains)])

itemsJSON(its) == JArr([i \in 1..Len(its) |-> itemJSON(its[i])])

\* JSON.stringify({ programme, items })
JSONStringify(p, its) ==
    JsonText(JObj([programme |-> programmeJSON(p), items |-> itemsJSON(its)]))

STORAGE_KEY == "cloudpedagogy_programme_mapping_v1"

\* localStorage.getItem: null when the key is absent
GetItem(ls, k) == IF k \in DOMAIN ls THEN ls[k] ELSE JNull

\* localStorage.setItem
SetItem(ls, k, t) ==
    [x \in DOMAIN ls \cup {k} |-> IF x = k THEN t ELSE ls[x]]

---------------------------------------------------------------------------
(* Domain registry and defaults *)

DOMAINS == <<"awareness", "coagency", "practice", "ethics", "governance", "reflection">>

DomainKeys == {DOMAINS[i] : i \in 1..Len(DOMAINS)}

MapItemTypes == {"Module", "Activity", "Assessment"}

emptyDomains == [k \in DomainKeys |-> JBool(FALSE)]

\* crypto.randomUUID(): an id no item or input in sight carries
UuidPool == <<"u1", "u2", "u3", "u4", "u5", "u6", "u7", "u8">>

randomUUID(taken) ==
    UuidPool[CHOOSE i \in 1..Len(UuidPool) :
                /\ UuidPool[i] \notin taken
                /\ \A j \in 1..(i - 1) : UuidPool[j] \in taken]

newItem(type, id) ==
    [id |-> id, type |-> type, name |-> "", notes |-> "", domains |-> emptyDomains]

todayISODate == "2026-11-04"

defaultProgrammeDetails ==
    [programmeTitle |-> "", awardLevel |-> "", department |-> "",
     institution |-> "", mappingDate |-> todayISODate, version |-> "v0.1"]

---------------------------------------------------------------------------
(* State normalizer *)

\* mutant: any string is taken for a type
coerceMapItemTypeAnyString(v) == IF IsStr(v) THEN v.str ELSE "Module"

coerceMapItemType(v) ==
    IF v = JStr("Module") \/ v = JStr("Activity") \/ v = JStr("Assessment")
    THEN v.str
    ELSE "Module"

stringOr(v, d) == IF IsStr(v) THEN v.str ELSE d

\* mutant: the tags of the input are dropped
normalizeDomainsReset(d) == emptyDomains

\* the domains of one normalized item
normalizeDomains(d) ==
    Merge(emptyDomains, IF IsObjectLike(d) THEN SpreadOf(d) ELSE <<>>)

\* one element of arr.map(...), with the id it gets
normalizeItem(it, id) ==
    [id |-> id,
     type |-> coerceMapItemType(Get(it, "type")),
     name |-> stringOr(Get(it, "name"), ""),
     notes |-> stringOr(Get(it, "notes"), ""),
     domains |-> normalizeDomains(Get(it, "domains"))]

stringIds(arr) ==
    {Get(arr[i], "id").str : i \in {j \in 1..Len(arr) : IsStr(Get(arr[j], "id"))}}

RECURSIVE mapItems(_, _, _)
mapItems(arr, i, taken) ==
    IF i > Len(arr) THEN <<>>
    ELSE LET id == IF IsStr(Get(arr[i], "id")) THEN Get(arr[i], "id").str
                   ELSE randomUUID(taken)
         IN  <<normalizeItem(arr[i], id)>> \o mapItems(arr, i + 1, taken \cup {id})

\* mutant: an empty or missing list stays empty
normalizeItemsNoSeed(itemsRaw, taken) ==
    LET arr == IF IsArr(itemsRaw) THEN itemsRaw.arr ELSE <<>>
    IN  mapItems(arr, 1, taken \cup stringIds(arr))

\* taken: the ids already in use, which a fresh UUID never repeats
normalizeItems(itemsRaw, taken) ==
    LET arr == IF IsArr(itemsRaw) THEN itemsRaw.arr ELSE <<>>
    IN  IF Len(arr) = 0 THEN <<newItem("Module", randomUUID(taken))>>
        ELSE mapItems(arr, 1, taken \cup stringIds(arr))

normalizeProgramme(p) ==
    LET obj == IF IsObjectLike(p) THEN p ELSE JObj(<<>>)
        base == defaultProgrammeDetails
    IN  [k \in DOMAIN base |-> stringOr(Get(obj, k), base[k])]

defaultState ==
    [programme |-> defaultProgrammeDetails,
     items |-> <<newItem("Module", randomUUID({}))>>]

\* mutant: the fallback state has no item
loadStateEmptyOnError(ls) ==
    LET raw == GetItem(ls, STORAGE_KEY)
        empty == [programme |-> defaultProgrammeDetails, items |-> <<>>]
    IN  IF IsNull(raw) \/ raw = EmptyText THEN empty
        ELSE LET parsed == JSONParse(raw)
             IN  IF ~parsed.ok THEN empty
                 ELSE [programme |-> normalizeProgramme(Get(parsed.value, "programme")),
                       items |-> normalizeItems(Get(parsed.value, "items"), {})]

loadState(ls) ==
    LET raw == GetItem(ls, STORAGE_KEY)
    IN  IF IsNull(raw) \/ raw = EmptyText THEN defaultState
        ELSE LET parsed == JSONParse(raw)
             IN  IF ~parsed.ok THEN defaultState
                 ELSE [programme |-> normalizeProgramme(Get(parsed.value, "programme")),
                       items |-> normalizeItems(Get(parsed.value, "items"), {})]

---------------------------------------------------------------------------
(* Strings read character by character: a text whose characters matter is  *)
(* a sequence of one-character strings.                                    *)

UpperLetters ==
    <<"A", "B", "C", "D", "E", "F", "G", "H", "I", "J", "K", "L", "M",
      "N", "O", "P", "Q", "R", "S", "T", "U", "V", "W", "X", "Y", "Z">>

LowerLetters ==
    <<"a", "b", "c", "d", "e", "f", "g", "h", "i", "j", "k", "l", "m",
      "n", "o", "p", "q", "r", "s", "t", "u", "v", "w", "x", "y", "z">>

Digits == {"0", "1", "2", "3", "4", "5", "6", "7", "8", "9"}

\* the characters of the strings the state and the inputs hold
chars(s) ==
    CASE s = "" -> <<>>
      [] s = "X" -> <<"X">>
      [] s = "MSc Public Health!!" ->
            <<"M", "S", "c", " ", "P", "u", "b", "l", "i", "c", " ",
              "H", "e", "a", "l", "t", "h", "!", "!">>
      [] s = "2026-11-04" -> <<"2", "0", "2", "6", "-", "1", "1", "-", "0", "4">>
      [] s = "2024-03-01" -> <<"2", "0", "2", "4", "-", "0", "3", "-", "0", "1">>
      [] s = "programme-mapping" ->
            <<"p", "r", "o", "g", "r", "a", "m", "m", "e", "-",
              "m", "a", "p", "p", "i", "n", "g">>
      [] s = "Seminar" -> <<"S", "e", "m", "i", "n", "a", "r">>
      [] s = "Lab" -> <<"L", "a", "b">>
      [] s = " Quiz " -> <<" ", "Q", "u", "i", "z", " ">>
      [] s = "a|b" -> <<"a", "|", "b">>
      [] s = ".json" -> <<".", "j", "s", "o", "n">>
      [] s = ".md" -> <<".", "m", "d">>

\* the lower-case form of the upper-case letters
LowerCaseOf ==
    [c \in {UpperLetters[i] : i \in 1..Len(UpperLetters)} |->
        LowerLetters[CHOOSE i \in 1..Len(UpperLetters) : UpperLetters[i] = c]]

\* String.prototype.toLowerCase, one character
toLowerCase(c) == IF c \in DOMAIN LowerCaseOf THEN LowerCaseOf[c] ELSE c

\* the class [a-z0-9]
Alnum == Digits \cup {LowerLetters[i] : i \in 1..Len(LowerLetters)}

IsAlnum(c) == c \in Alnum

\* .replace(/[^a-z0-9]+/g, "-"): every maximal run outside the class becomes
\* one hyphen
RECURSIVE replaceRuns(_)
replaceRuns(s) ==
    IF s = <<>> THEN <<>>
    ELSE IF IsAlnum(Head(s)) THEN <<Head(s)>> \o replaceRuns(Tail(s))
    ELSE IF Len(s) > 1 /\ ~IsAlnum(s[2]) THEN replaceRuns(Tail(s))
    ELSE <<"-">> \o replaceRuns(Tail(s))

\* .replace(/(^-|-$)/g, ""): a hyphen at the start and one at the end go
stripEdges(s) ==
    LET a == IF s # <<>> /\ Head(s) = "-" THEN Tail(s) ELSE s
    IN  IF a # <<>> /\ a[Len(a)] = "-" THEN SubSeq(a, 1, Len(a) - 1) ELSE a

\* mutant: the hyphens at the two ends stay
safeSlugUntrimmed(input) ==
    replaceRuns([i \in 1..Len(input) |-> toLowerCase(input[i])])

safeSlug(input) ==
    stripEdges(replaceRuns([i \in 1..Len(input) |-> toLowerCase(input[i])]))

\* a || b on strings
orElse(a, b) == IF a # <<>> THEN a ELSE b

\* `${safeTitle}-${date}` of exportJSON and exportMarkdown
exportStem(programmeTitle, mappingDate) ==
    LET safeTitle == orElse(safeSlug(orElse(programmeTitle, chars("programme-mapping"))),
                            chars("programme-mapping"))
        date == orElse(mappingDate, chars(todayISODate))
    IN  safeTitle \o <<"-">> \o date

---------------------------------------------------------------------------
(* Derived view: coverage, observations *)

\* the short labels of the registry
short(key) ==
    CASE key = "awareness" -> "Awareness"
      [] key = "coagency" -> "Co-Agency"
      [] key = "practice" -> "Practice"
      [] key = "ethics" -> "Ethics"
      [] key = "governance" -> "Governance"
      [] key = "reflection" -> "Renewal"

\* the number that is not a number
NaN == [nan |-> TRUE]

\* a + b on numbers; undefined + 1 and NaN + 1 are NaN
numAdd(a, b) == IF IsNum(a) /\ IsNum(b) THEN JNum(a.num + b.num) ELSE NaN

\* the keys k of Object.keys(item.domains) with item.domains[k] truthy
truthyKeys(it) == {k \in DOMAIN it.domains : Truthy(it.domains[k])}

\* the counts after the loop over the items: a registry key starts at 0 and
\* gains 1 for every item that holds it truthy; any other truthy key starts
\* undefined, and undefined + 1 is NaN, which further additions leave NaN
coverage(its) ==
    LET counted == DomainKeys \cup UNION {truthyKeys(its[i]) : i \in 1..Len(its)}
    IN  [k \in counted |->
            IF k \in DomainKeys
            THEN JNum(Cardinality({i \in 1..Len(its) : k \in truthyKeys(its[i])}))
            ELSE NaN]

\* numbers added from the left, from 0
RECURSIVE sumFrom(_, _)
sumFrom(nums, i) ==
    IF i = 0 THEN JNum(0) ELSE numAdd(sumFrom(nums, i - 1), nums[i])

\* DOMAINS.reduce((sum, d) => sum + coverage[d.key], 0)
totalDomainTags(cov) == sumFrom([i \in 1..Len(DOMAINS) |-> cov[DOMAINS[i]]], Len(DOMAINS))

\* mutant: the export buttons are never disabled
hasAnyTagAlways(cov) == TRUE

\* totalDomainTags > 0 (false for NaN)
hasAnyTag(cov) ==
    LET total == totalDomainTags(cov)
    IN  IsNum(total) /\ total.num > 0

\* mutant: a tie sorts the later domain first
comesBeforeOrTies(cov, a, b) ==
    IsNum(cov[a]) /\ IsNum(cov[b]) /\ cov[a].num >= cov[b].num

\* the comparator (a, b) => coverage[b.key] - coverage[a.key] is negative:
\* a sorts before b (a NaN difference counts as 0)
comesBefore(cov, a, b) ==
    IsNum(cov[a]) /\ IsNum(cov[b]) /\ cov[a].num > cov[b].num

\* one step of the sort: d goes in front of the first domain it sorts before,
\* behind every domain it ties with (the sort is stable)
RECURSIVE insertSorted(_, _, _)
insertSorted(cov, sorted, d) ==
    IF sorted = <<>> THEN <<d>>
    ELSE IF comesBefore(cov, d, Head(sorted)) THEN <<d>> \o sorted
    ELSE <<Head(sorted)>> \o insertSorted(cov, Tail(sorted), d)

\* [...DOMAINS].sort(...): the first n domains of the registry, sorted
RECURSIVE sortByCoverage(_, _)
sortByCoverage(cov, n) ==
    IF n = 0 THEN <<>>
    ELSE CHOOSE sorted \in {insertSorted(cov, front, DOMAINS[n]) :
                                front \in {sortByCoverage(cov, n - 1)}} : TRUE

\* sorted[sorted.length - 1]
leastOf(sorted) == sorted[Len(sorted)]

\* the sentences of the observations, by kind and by what they name
LineItems(n) == [kind |-> "items", n |-> n, plural |-> n # 1]

LineMost(d, n) == [kind |-> "most", domain |-> d, n |-> n, plural |-> n # JNum(1)]

LineLeast(d, n) == [kind |-> "least", domain |-> d, n |-> n, plural |-> n # JNum(1)]

LineZero(ds) == [kind |-> "zero", domains |-> ds]

LineNoTags == [kind |-> "notags"]

LineClosing == [kind |-> "closing"]

\* mutant: the closing sentence is written in the tagged branch only
observationsNoClosing(cov, totalItems) ==
    IF hasAnyTag(cov)
    THEN <<LineItems(totalItems), LineClosing>>
    ELSE <<LineItems(totalItems), LineNoTags>>

observations(cov, totalItems) ==
    LET sorted == sortByCoverage(cov, Len(DOMAINS))
        most == sorted[1]
        least == leastOf(sorted)
        zeroDomains == SelectSeq(DOMAINS, LAMBDA d : cov[d] = JNum(0))
    IN  <<LineItems(totalItems)>>
        \o (IF hasAnyTag(cov)
            THEN <<LineMost(most, cov[most]), LineLeast(least, cov[least])>>
                 \o (IF zeroDomains # <<>> THEN <<LineZero(zeroDomains)>> ELSE <<>>)
            ELSE <<LineNoTags>>)
        \o <<LineClosing>>

---------------------------------------------------------------------------
(* Exports: the JSON payload and the Markdown report *)

TOOL_NAME == "AI Capability Programme Mapping"

\* new Date().toISOString() at the moment of the export
exportedAtNow == "2026-11-04T09:00:00.000Z"

PLURAL_LABELS == [Module |-> "Modules", Activity |-> "Activities", Assessment |-> "Assessments"]

\* the text downloadJSON writes: JSON.stringify(payload, null, 2)
exportPayload(p, its) ==
    JsonText(JObj([tool |-> JStr(TOOL_NAME),
                   exportedAt |-> JStr(exportedAtNow),
                   programme |-> programmeJSON(p),
                   items |-> itemsJSON(its)]))

\* String.prototype.trim
RECURSIVE trimStart(_)
trimStart(s) == IF s # <<>> /\ Head(s) = " " THEN trimStart(Tail(s)) ELSE s

RECURSIVE trimEnd(_)
trimEnd(s) ==
    IF s # <<>> /\ s[Len(s)] = " " THEN trimEnd(SubSeq(s, 1, Len(s) - 1)) ELSE s

trim(s) == trimEnd(trimStart(s))

\* s.replace(/\|/g, "\\|")
RECURSIVE escapePipes(_)
escapePipes(s) ==
    IF s = <<>> THEN <<>>
    ELSE (IF Head(s) = "|" THEN <<"\\", "|">> ELSE <<Head(s)>>) \o escapePipes(Tail(s))

\* a table cell: text written out, a joined list of labels, or a marker
CellText(s) == [text |-> s]

CellJoined(labels) == [joined |-> labels, separator |-> ", "]

CellMarker(m) == [marker |-> m]

\* DOMAINS.filter((d) => it.domains[d.key]).map((d) => d.short)
itemTags(it) ==
    LET tagged == SelectSeq(DOMAINS, LAMBDA d : d \in DOMAIN it.domains
                                              /\ Truthy(it.domains[d]))
    IN  [i \in 1..Len(tagged) |-> short(tagged[i])]

\* one row of an item table; idx counts from 0. The marker of empty notes is
\* an underscore, a dash and an underscore.
itemRow(it, idx) ==
    LET name == orElse(trim(chars(it.name)), <<"U", "n", "t", "i", "t", "l", "e", "d">>)
        tags == itemTags(it)
        notes == trim(chars(it.notes))
    IN  [n |-> idx + 1,
         item |-> CellText(escapePipes(name)),
         tags |-> IF Len(tags) # 0 THEN CellJoined(tags) ELSE CellMarker("_None_"),
         notes |-> IF notes # <<>> THEN CellText(escapePipes(notes))
                   ELSE CellMarker("_-_")]

\* mutant: every item is pushed to every group
groupEveryItem(its, type) == its

\* for (const it of items) groups[it.type].push(it)
group(its, type) == SelectSeq(its, LAMBDA it : it.type = type)

\* renderType: the heading and the table of one type, or the heading and the
\* "none added" line
renderType(its, type) ==
    LET list == group(its, type)
    IN  [heading |-> PLURAL_LABELS[type],
         none |-> Len(list) = 0,
         rows |-> [i \in 1..Len(list) |-> itemRow(list[i], i - 1)]]

\* the parts of the report that depend on the mapping: the coverage table,
\* the observations and the three item sections (the headings, the framing
\* texts and the programme details are fixed lines around them)
buildMarkdown(p, its, cov, obs) ==
    [coverage |-> [i \in 1..Len(DOMAINS) |-> <<DOMAINS[i], cov[DOMAINS[i]]>>],
     observations |-> obs,
     items |-> <<renderType(its, "Module"), renderType(its, "Activity"),
                 renderType(its, "Assessment")>>]

---------------------------------------------------------------------------
(* Inputs: what the user types, clicks and selects, and what the storage   *)
(* holds when the application is first opened.                             *)

\* updateProgramme patches typed into the form: <<field, value>>
\* (the other five fields are edited by the same handler)
ProgrammeEdits == {<<"programmeTitle", "MSc Public Health!!">>}

\* updateItem patches typed into an item card
ItemPatches == {[name |-> "Seminar"]}

\* the tag buttons the user presses
ToggleKeys == {"ethics"}

\* the card whose Remove button the user presses: the last one of the list
RemoveTargets(its) == IF its = <<>> THEN {} ELSE {its[Len(its)].id}

\* the add buttons pressed ("+ Module", "+ Activity", "+ Assessment" exist)
AddTypes == {"Activity"}

FileNotJson == NotJsonText

\* {"programme":{"programmeTitle":"X"},"items":[]}
FileEmptyItems ==
    JsonText(JObj([programme |-> JObj([programmeTitle |-> JStr("X")]),
                   items |-> JArr(<<>>)]))

\* a file of another version: a non-string programme field, a misspelt type,
\* a domains object with a missing key, a non-boolean value and an extra key,
\* and two elements that carry the same id
FileVersionSkew ==
    JsonText(JObj([programme |-> JObj([programmeTitle |-> JStr("X"), version |-> JNum(2)]),
                   items |-> JArr(<<JObj([id |-> JStr("a"), type |-> JStr("activity"),
                                          name |-> JStr("Lab"),
                                          domains |-> JObj([awareness |-> JBool(TRUE),
                                                            ethics |-> JStr("yes"),
                                                            extra |-> JBool(TRUE)])]),
                                    JObj([id |-> JStr("a"), type |-> JStr("Assessment")])>>)]))

ImportFiles == {FileNotJson, FileEmptyItems, FileVersionSkew}

\* the storage when the page is first opened: nothing, or a damaged entry
BootStorages == {<<>>, [k \in {STORAGE_KEY} |-> NotJsonText]}

---------------------------------------------------------------------------
(* Dialogs *)

NoDialog == [kind |-> "none"]

Alert(msg) == [kind |-> "alert", msg |-> msg]

Confirm(msg, ok) == [kind |-> "confirm", msg |-> msg, ok |-> ok]

MsgNotJson == "That file could not be parsed as JSON."

MsgNotMapping == "This JSON file does not look like a programme mapping export."

MsgImport == "Import this mapping?"

MsgClear == "Clear this mapping?"

\* what the latest handler handed to the browser as a download: nothing, or
\* a file (downloadBlob: an object URL, a click on a link with that name)
NoDownload == [kind |-> "none"]

Download(filename, content) == [kind |-> "file", filename |-> filename, content |-> content]

---------------------------------------------------------------------------
(* The application *)

Idle == [idle |-> TRUE]

itemIds(its) == {its[i].id : i \in 1..Len(its)}

\* mutant: the effect depends on [programme] alone
persistProgrammeOnly(p, its) ==
    IF p # programme
    THEN SetItem(localStorage, STORAGE_KEY, JSONStringify(p, its))
    ELSE localStorage

\* useEffect(() => localStorage.setItem(...), [programme, items]): the storage
\* after the render that shows programme p and items its
persist(p, its) == SetItem(localStorage, STORAGE_KEY, JSONStringify(p, its))

\* a state update, the render that follows it and that render's effect
render(p, its) ==
    /\ programme' = p
    /\ items' = its
    /\ localStorage' = persist(p, its)

\* a handler that calls no setter: nothing is rendered
noRender == UNCHANGED <<programme, items, localStorage>>

\* App() on a page whose storage is ls: loadState, then the first render
mount(ls) ==
    LET initial == loadState(ls)
    IN  /\ programme = initial.programme
        /\ items = initial.items
        /\ localStorage = SetItem(ls, STORAGE_KEY,
                                  JSONStringify(initial.programme, initial.items))

Init ==
    /\ \E ls \in BootStorages : mount(ls)
    /\ pending = {}
    /\ dialog = NoDialog
    /\ download = NoDownload
    /\ arg = Idle
    /\ res = Idle

updateProgramme(field, value) ==
    /\ render([programme EXCEPT ![field] = value], items)
    /\ dialog' = NoDialog
    /\ download' = NoDownload
    /\ UNCHANGED <<pending, arg, res>>

updateItemResult(its, id, patch) ==
    [i \in 1..Len(its) |-> IF its[i].id = id THEN Merge(its[i], patch) ELSE its[i]]

updateItem(id, patch) ==
    /\ render(programme, updateItemResult(items, id, patch))
    /\ dialog' = NoDialog
    /\ download' = NoDownload
    /\ UNCHANGED <<pending, arg, res>>

toggleDomainResult(its, id, key) ==
    [i \in 1..Len(its) |->
        IF its[i].id = id
        THEN [its[i] EXCEPT !.domains =
                 Merge(its[i].domains,
                       [k \in {key} |-> JBool(~Truthy(its[i].domains[key]))])]
        ELSE its[i]]

toggleDomain(id, key) ==
    /\ render(programme, toggleDomainResult(items, id, key))
    /\ dialog' = NoDialog
    /\ download' = NoDownload
    /\ UNCHANGED <<pending, arg, res>>

addItem(type) ==
    /\ Len(items) < MaxItems
    /\ render(programme, Append(items, newItem(type, randomUUID(itemIds(items)))))
    /\ dialog' = NoDialog
    /\ download' = NoDownload
    /\ UNCHANGED <<pending, arg, res>>

removeItemResult(its, id) == SelectSeq(its, LAMBDA it : it.id # id)

\* the Remove button of a card is disabled while items.length === 1
removeItem(id) ==
    /\ Len(items) # 1
    /\ render(programme, removeItemResult(items, id))
    /\ dialog' = NoDialog
    /\ download' = NoDownload
    /\ UNCHANGED <<pending, arg, res>>

clearAll(ok) ==
    /\ dialog' = Confirm(MsgClear, ok)
    /\ download' = NoDownload
    /\ IF ok
       THEN render(defaultProgrammeDetails,
                   <<newItem("Module", randomUUID(itemIds(items)))>>)
       ELSE noRender
    /\ UNCHANGED <<pending, arg, res>>

\* the file input's change event: the read starts, the handler is suspended.
\* Nothing in the handler looks at the reads already in flight; a file whose
\* read is in flight is not selected again, which keeps pending finite.
onImportChange(file) ==
    /\ file \notin pending
    /\ pending' = pending \cup {file}
    /\ dialog' = NoDialog
    /\ download' = NoDownload
    /\ noRender
    /\ UNCHANGED <<arg, res>>

\* mutant: a confirmed import sets the programme and keeps the items
importOutcomeProgrammeOnly(text, ok) ==
    LET parsed == JSONParse(text)
        nextProgramme == normalizeProgramme(Get(parsed.value, "programme"))
    IN  IF ~parsed.ok
        THEN [dialog |-> Alert(MsgNotJson), set |-> FALSE,
              programme |-> programme, items |-> items]
        ELSE IF ~ok
        THEN [dialog |-> Confirm(MsgImport, FALSE), set |-> FALSE,
              programme |-> programme, items |-> items]
        ELSE [dialog |-> Confirm(MsgImport, TRUE), set |-> TRUE,
              programme |-> nextProgramme, items |-> items]

\* mutant: a text that does not parse is normalized like any other value
importOutcomeNoParseCheck(text, ok) ==
    LET parsed == JSONParse(text)
        nextProgramme == normalizeProgramme(Get(parsed.value, "programme"))
        nextItems == normalizeItems(Get(parsed.value, "items"), itemIds(items))
    IN  IF ~ok
        THEN [dialog |-> Confirm(MsgImport, FALSE), set |-> FALSE,
              programme |-> programme, items |-> items]
        ELSE [dialog |-> Confirm(MsgImport, TRUE), set |-> TRUE,
              programme |-> nextProgramme, items |-> nextItems]

\* what handleImportFile does with the text once the read has completed, the
\* user answering ok to a confirmation: the dialog shown and the state to set
\* (set = FALSE: no setter is called)
importOutcome(text, ok) ==
    LET parsed == JSONParse(text)
        nextProgramme == normalizeProgramme(Get(parsed.value, "programme"))
        nextItems == normalizeItems(Get(parsed.value, "items"), itemIds(items))
    IN  IF ~parsed.ok
        THEN [dialog |-> Alert(MsgNotJson), set |-> FALSE,
              programme |-> programme, items |-> items]
        ELSE IF Len(nextItems) = 0
        THEN [dialog |-> Alert(MsgNotMapping), set |-> FALSE,
              programme |-> programme, items |-> items]
        ELSE IF ~ok
        THEN [dialog |-> Confirm(MsgImport, FALSE), set |-> FALSE,
              programme |-> programme, items |-> items]
        ELSE [dialog |-> Confirm(MsgImport, TRUE), set |-> TRUE,
              programme |-> nextProgramme, items |-> nextItems]

\* the read of file completes and the rest of handleImportFile runs
handleImportFile(file, ok) ==
    LET out == importOutcome(file, ok)
    IN  /\ pending' = pending \ {file}
        /\ dialog' = out.dialog
        /\ download' = NoDownload
        /\ IF out.set THEN render(out.programme, out.items) ELSE noRender
        /\ UNCHANGED <<arg, res>>

\* the Export JSON button, disabled={!hasAnyTag}
exportJSON ==
    \E cov \in {coverage(items)} :
        /\ hasAnyTag(cov)
        /\ download' = Download(exportStem(chars(programme.programmeTitle),
                                           chars(programme.mappingDate))
                                    \o chars(".json"),
                                exportPayload(programme, items))
        /\ dialog' = NoDialog
        /\ noRender
        /\ UNCHANGED <<pending, arg, res>>

\* the Export Markdown button, disabled={!hasAnyTag}; cov and obs are the
\* memoized coverage and observations of the render on screen
exportMarkdown ==
    \E cov \in {coverage(items)} :
        \E obs \in {observations(cov, Len(items))} :
            /\ hasAnyTag(cov)
            /\ download' = Download(exportStem(chars(programme.programmeTitle),
                                               chars(programme.mappingDate))
                                        \o chars(".md"),
                                    buildMarkdown(programme, items, cov, obs))
            /\ dialog' = NoDialog
            /\ noRender
            /\ UNCHANGED <<pending, arg, res>>

\* the page is reloaded: reads in flight are dropped, the state is loaded again
reload ==
    /\ LET initial == loadState(localStorage)
       IN  render(initial.programme, initial.items)
    /\ pending' = {}
    /\ dialog' = NoDialog
    /\ download' = NoDownload
    /\ UNCHANGED <<arg, res>>

Next ==
    \/ \E e \in ProgrammeEdits : updateProgramme(e[1], e[2])
    \/ \E id \in itemIds(items), patch \in ItemPatches : updateItem(id, patch)
    \/ \E id \in itemIds(items), key \in ToggleKeys : toggleDomain(id, key)
    \/ \E type \in AddTypes : addItem(type)
    \/ \E id \in RemoveTargets(items) : removeItem(id)
    \/ \E ok \in BOOLEAN : clearAll(ok)
    \/ \E file \in ImportFiles : onImportChange(file)
    \/ \E file \in pending, ok \in BOOLEAN : handleImportFile(file, ok)
    \/ exportJSON
    \/ exportMarkdown
    \/ reload

Spec == Init /\ [][Next]_vars

---------------------------------------------------------------------------
(* The normalizer and loadState on their own: one call on one input.       *)

\* elements an untrusted items array may hold
Elems ==
    {JNull, JNum(7), JStr("x"), JArr(<<>>), JObj(<<>>),
     JObj([id |-> JStr("a")]),
     JObj([id |-> JNum(1), type |-> JStr("module"), name |-> JNum(3), notes |-> JNull]),
     JObj([id |-> JStr("b"), type |-> JStr("Activity"), name |-> JStr("Lab"),
           notes |-> JStr("n1"), domains |-> JObj([awareness |-> JBool(TRUE)]),
           owner |-> JStr("me")]),
     JObj([type |-> JStr("Assessment"),
           domains |-> JObj([ethics |-> JStr("yes"), extra |-> JBool(TRUE)])]),
     JObj([type |-> JStr("Exam"), notes |-> JStr(""), domains |-> JArr(<<JBool(TRUE)>>)])}

MaxArrayLen == 2

Arrays == UNION {[1..n -> Elems] : n \in 0..MaxArrayLen}

ItemsInputs ==
    {Undefined, JNull, JNum(0), JStr("items"), JBool(TRUE), JObj(<<>>),
     JObj([length |-> JNum(2)])} \cup {JArr(a) : a \in Arrays}

ProgrammeInputs ==
    {Undefined, JNull, JNum(1), JStr("p"), JBool(TRUE), JArr(<<>>), JArr(<<JStr("t")>>),
     JObj(<<>>),
     JObj([programmeTitle |-> JStr("MSc")]),
     JObj([mappingDate |-> JStr(""), version |-> JStr("")]),
     JObj([programmeTitle |-> JStr("MSc"), awardLevel |-> JStr("PG"),
           department |-> JStr("D"), institution |-> JStr("I"),
           mappingDate |-> JStr("2024-03-01"), version |-> JStr("v2"),
           owner |-> JStr("me")]),
     JObj([programmeTitle |-> JNum(1), awardLevel |-> JNull, department |-> JBool(TRUE),
           institution |-> JArr(<<>>), mappingDate |-> JObj(<<>>), version |-> JNum(2)])}

\* parsed values that are no { programme, items } record at all
WrongShapes ==
    {JNull, JNum(5), JStr("s"), JBool(FALSE), JArr(<<>>), JArr(<<JNum(1)>>), JObj(<<>>),
     JObj([tool |-> JStr("other")]),
     JObj([programme |-> JNum(5), items |-> JStr("x")]),
     JObj([programme |-> JNull, items |-> JObj(<<>>)])}

RightShapes ==
    {JObj([programme |-> pr, items |-> JArr(a)]) :
        pr \in {JObj([programmeTitle |-> JStr("MSc")]), JNull},
        a \in {b \in Arrays : Len(b) = 1}}

\* what the storage may hold when loadState runs
LoadStorages ==
    {<<>>, [k \in {"another_key"} |-> JsonText(JObj(<<>>))]}
    \cup {[k \in {STORAGE_KEY} |-> t] :
            t \in {EmptyText, NotJsonText}
                  \cup {JsonText(v) : v \in WrongShapes \cup RightShapes}}

NormInputs ==
    {[fn |-> "loadState", storage |-> ls] : ls \in LoadStorages}
    \cup {[fn |-> "normalizeItems", value |-> v] : v \in ItemsInputs}
    \cup {[fn |-> "normalizeProgramme", value |-> v] : v \in ProgrammeInputs}

InitNorm ==
    /\ mount(<<>>)
    /\ pending = {}
    /\ dialog = NoDialog
    /\ download = NoDownload
    /\ arg \in NormInputs
    /\ res = Idle

callLoadState ==
    /\ res = Idle
    /\ arg.fn = "loadState"
    /\ res' = loadState(arg.storage)
    /\ UNCHANGED <<programme, items, localStorage, pending, dialog, download, arg>>

callNormalizeItems ==
    /\ res = Idle
    /\ arg.fn = "normalizeItems"
    /\ res' = [items |-> normalizeItems(arg.value, {})]
    /\ UNCHANGED <<programme, items, localStorage, pending, dialog, download, arg>>

callNormalizeProgramme ==
    /\ res = Idle
    /\ arg.fn = "normalizeProgramme"
    /\ res' = [programme |-> normalizeProgramme(arg.value)]
    /\ UNCHANGED <<programme, items, localStorage, pending, dialog, download, arg>>

NextNorm ==
    \/ callLoadState
    \/ callNormalizeItems
    \/ callNormalizeProgramme

SpecNorm == InitNorm /\ [][NextNorm]_vars

---------------------------------------------------------------------------
(* The derived view and the export builders on their own: one call on one  *)
(* input.                                                                  *)

MaxViewItems == 3

MaxTitleLen == 3

\* the tags an item of an input list carries
ViewTagSets == {{}, {"awareness"}, {"awareness", "ethics"}, {"reflection"}, DomainKeys}

\* the tags of an item of a list handed to buildMarkdown
ReportTagSets == {{}, {"awareness", "ethics"}, {"coagency", "reflection"}}

\* the names the cards of an input list carry, by position
ViewNames == <<"Lab", " Quiz ", "a|b", "", "Seminar">>

viewItem(i, type, tags) ==
    [id |-> UuidPool[i], type |-> type,
     name |-> ViewNames[((i - 1) % Len(ViewNames)) + 1], notes |-> "",
     domains |-> [k \in DomainKeys |-> JBool(k \in tags)]]

\* item lists as the typed state holds them: MapItem[] with boolean tags
ViewLists(types, tagSets) ==
    UNION {{[i \in 1..n |-> viewItem(i, shape[i][1], shape[i][2])] :
                shape \in [1..n -> types \X tagSets]} : n \in 0..MaxViewItems}

\* the characters of the titles typed into the form
TitleAlphabet == {"A", "b", "7", " ", "-"}

Titles ==
    UNION {[1..n -> TitleAlphabet] : n \in 0..MaxTitleLen}
        \cup {chars("MSc Public Health!!")}

\* the mapping dates: a date picked, or the field cleared
MappingDates == {chars("2024-03-01"), chars("")}

ViewInputs ==
    {[fn |-> "observations", items |-> its] : its \in ViewLists({"Module"}, ViewTagSets)}
        \cup {[fn |-> "buildMarkdown", items |-> its] :
                 its \in ViewLists(MapItemTypes, ReportTagSets)}
        \cup {[fn |-> "exportStem", programmeTitle |-> t, mappingDate |-> dt] :
                 t \in Titles, dt \in MappingDates}

InitView ==
    /\ mount(<<>>)
    /\ pending = {}
    /\ dialog = NoDialog
    /\ download = NoDownload
    /\ arg \in ViewInputs
    /\ res = Idle

callObservations ==
    /\ res = Idle
    /\ arg.fn = "observations"
    /\ \E cov \in {coverage(arg.items)} :
          res' = [coverage |-> cov, observations |-> observations(cov, Len(arg.items))]
    /\ UNCHANGED <<programme, items, localStorage, pending, dialog, download, arg>>

callBuildMarkdown ==
    /\ res = Idle
    /\ arg.fn = "buildMarkdown"
    /\ \E cov \in {coverage(arg.items)} :
          \E obs \in {observations(cov, Len(arg.items))} :
              res' = [markdown |-> buildMarkdown(programme, arg.items, cov, obs)]
    /\ UNCHANGED <<programme, items, localStorage, pending, dialog, download, arg>>

callExportStem ==
    /\ res = Idle
    /\ arg.fn = "exportStem"
    /\ res' = [stem |-> exportStem(arg.programmeTitle, arg.mappingDate)]
    /\ UNCHANGED <<programme, items, localStorage, pending, dialog, download, arg>>

NextView ==
    \/ callObservations
    \/ callBuildMarkdown
    \/ callExportStem

SpecView == InitView /\ [][NextView]_vars

---------------------------------------------------------------------------
(* Properties of the application (checked under Spec) *)

\* the tag map of a well-formed item: the six registry keys, each a boolean
CanonicalDomains(d) ==
    /\ DOMAIN d = DomainKeys
    /\ \A k \in DOMAIN d : IsBool(d[k])

\* C1: every item's tag map has exactly the six canonical keys, no other key,
\* and each value is a boolean, in every state reachable through load, import,
\* add, update, toggle, remove and clear.
C1_DomainTagsCanonical ==
    \A i \in 1..Len(items) : CanonicalDomains(items[i].domains)

\* C2: the item list is never empty.
C2_ItemsNonEmpty == Len(items) >= 1

\* the dialogs only handleImportFile shows
IsImportDialog(d) ==
    \/ d.kind = "alert"
    \/ (d.kind = "confirm" /\ d.msg = MsgImport)

\* a step in which the read of file completes and its handler runs to the end
ImportStep(file) ==
    /\ file \in pending
    /\ pending' = pending \ {file}
    /\ IsImportDialog(dialog')

StateKept ==
    /\ programme' = programme
    /\ items' = items
    /\ localStorage' = localStorage

\* the state and the stored value are the normalized content of file
StateReplacedBy(file) ==
    LET parsed == JSONParse(file)
    IN  /\ parsed.ok
        /\ programme' = normalizeProgramme(Get(parsed.value, "programme"))
        /\ items' = normalizeItems(Get(parsed.value, "items"), itemIds(items))
        /\ localStorage' = [k \in {STORAGE_KEY} |-> JSONStringify(programme', items')]

\* C3: an import attempt leaves the pair (programme, items) and the stored
\* value either entirely what they were or entirely the normalized content of
\* the imported file; the imported programme is never combined with the old
\* items, nor the old programme with the imported items.
C3_ImportAtomic ==
    [][\A file \in ImportFiles :
          ImportStep(file) => (StateKept \/ StateReplacedBy(file))]_vars

\* an import was confirmed and replaced an edited two-item state
C3_Witness ==
    /\ dialog = Confirm(MsgImport, TRUE)
    /\ programme.programmeTitle = "X"
    /\ programme.version = "v0.1"
    /\ Len(items) = 2
    /\ items[1].id = "a"
    /\ items[1].name = "Lab"

\* the file parses and its items are missing, not a list, or an empty list
ItemsMissingOrEmpty(file) ==
    /\ "json" \in DOMAIN file
    /\ LET its == Get(file.json, "items")
       IN  ~IsArr(its) \/ Len(its.arr) = 0

\* C4: importing a file that parses but whose items are an empty list, missing
\* or not a list shows the "not a recognized mapping export" message, asks for
\* no confirmation and leaves programme, items and the stored value unchanged.
C4_EmptyItemsRejected ==
    [][\A file \in ImportFiles :
          (ImportStep(file) /\ ItemsMissingOrEmpty(file))
              => (dialog' = Alert(MsgNotMapping) /\ StateKept)]_vars

\* C5: importing a text that is not parseable JSON shows the "could not be
\* parsed as JSON" message, asks for no confirmation and leaves programme,
\* items and the stored value exactly as they were.
C5_NotJsonReported ==
    [][\A file \in ImportFiles :
          (ImportStep(file) /\ "garbage" \in DOMAIN file)
              => (dialog' = Alert(MsgNotJson) /\ StateKept)]_vars

\* the import of an unparseable file has just been reported, on an edited state
C5_Witness ==
    /\ dialog = Alert(MsgNotJson)
    /\ FileNotJson \notin pending
    /\ Len(items) = 2
    /\ programme.programmeTitle = "MSc Public Health!!"

\* C6: at most one import is in flight at a time.
C6_OneImportInFlight == Cardinality(pending) <= 1

\* the stored text is the JSON encoding of exactly { programme: p, items: its }
EncodesState(t, p, its) ==
    /\ "json" \in DOMAIN t
    /\ IsObj(t.json)
    /\ DOMAIN t.json.obj = {"programme", "items"}
    /\ LET sp == t.json.obj["programme"]
           si == t.json.obj["items"]
       IN  /\ IsObj(sp)
           /\ DOMAIN sp.obj = DOMAIN p
           /\ \A k \in DOMAIN p : sp.obj[k] = JStr(p[k])
           /\ IsArr(si)
           /\ Len(si.arr) = Len(its)
           /\ \A i \in 1..Len(its) :
                 /\ IsObj(si.arr[i])
                 /\ DOMAIN si.arr[i].obj = {"id", "type", "name", "notes", "domains"}
                 /\ si.arr[i].obj["id"] = JStr(its[i].id)
                 /\ si.arr[i].obj["type"] = JStr(its[i].type)
                 /\ si.arr[i].obj["name"] = JStr(its[i].name)
                 /\ si.arr[i].obj["notes"] = JStr(its[i].notes)
                 /\ si.arr[i].obj["domains"] = JObj(its[i].domains)

\* C7: after the initial load and after every processed mutation the one
\* storage key holds the JSON encoding of exactly the current programme and
\* items, and no other key is written.
C7_WriteThrough ==
    /\ DOMAIN localStorage = {STORAGE_KEY}
    /\ EncodesState(localStorage[STORAGE_KEY], programme, items)

\* a state reached by a programme edit, an added item, an item edit and a toggle
C7_Witness ==
    /\ programme.programmeTitle = "MSc Public Health!!"
    /\ Len(items) = 2
    /\ items[2].type = "Activity"
    /\ items[2].name = "Seminar"
    /\ items[1].domains["ethics"] = JBool(TRUE)

---------------------------------------------------------------------------
(* Properties of the normalizer (checked under SpecNorm) *)

Called(fn) == arg # Idle /\ arg.fn = fn /\ res # Idle

\* a parsed value that is no { programme, items } record
WrongShape(v) ==
    \/ ~IsObj(v)
    \/ (~IsObj(Get(v, "programme")) /\ ~IsArr(Get(v, "items")))

\* the storage has no entry, an unparseable entry or an entry of the wrong shape
StorageUnusable(ls) ==
    \/ STORAGE_KEY \notin DOMAIN ls
    \/ "garbage" \in DOMAIN ls[STORAGE_KEY]
    \/ ("json" \in DOMAIN ls[STORAGE_KEY] /\ WrongShape(ls[STORAGE_KEY].json))

IsBlankModule(it) ==
    /\ it.type = "Module"
    /\ it.name = ""
    /\ it.notes = ""
    /\ DOMAIN it.domains = DomainKeys
    /\ \A k \in DomainKeys : it.domains[k] = JBool(FALSE)

IsUuid(id) == \E i \in 1..Len(UuidPool) : UuidPool[i] = id

IsFullDefault(st) ==
    /\ st.programme = [programmeTitle |-> "", awardLevel |-> "", department |-> "",
                       institution |-> "", mappingDate |-> todayISODate,
                       version |-> "v0.1"]
    /\ Len(st.items) = 1
    /\ IsBlankModule(st.items[1])

\* C8: loadState always returns a state, and when the storage key is absent,
\* its content is not parseable JSON or parses to a value of the wrong shape,
\* that state is the full default: one blank Module item with all six tags
\* false and a blank programme dated today with version "v0.1".
C8_LoadStateDefaults ==
    Called("loadState") =>
        /\ DOMAIN res = {"programme", "items"}
        /\ StorageUnusable(arg.storage) => IsFullDefault(res)

\* loadState has run on a storage whose entry is the text "not json"
C8_Witness ==
    /\ Called("loadState")
    /\ arg.storage = [k \in {STORAGE_KEY} |-> NotJsonText]
    /\ Len(res.items) = 1

\* the element el of the input and the item it of the result agree on every
\* field the element gives as a string
SameElement(el, it) ==
    /\ IsStr(Get(el, "id")) => it.id = Get(el, "id").str
    /\ IsStr(Get(el, "name")) => it.name = Get(el, "name").str
    /\ IsStr(Get(el, "notes")) => it.notes = Get(el, "notes").str
    /\ Get(el, "type") \in {JStr(t) : t \in MapItemTypes} => it.type = Get(el, "type").str

\* C9: normalizeItems returns a non-empty sequence for every input: exactly
\* one fresh blank Module item for a non-array or an empty array, and one item
\* per element, in the same order, for a non-empty array.
C9_NormalizeItemsNonEmpty ==
    Called("normalizeItems") =>
        LET v == arg.value
            out == res.items
        IN  /\ Len(out) >= 1
            /\ IF IsArr(v) /\ Len(v.arr) > 0
               THEN /\ Len(out) = Len(v.arr)
                    /\ \A i \in 1..Len(out) : SameElement(v.arr[i], out[i])
               ELSE /\ Len(out) = 1
                    /\ IsBlankModule(out[1])
                    /\ IsUuid(out[1].id)

\* normalizeItems has run on an array that holds null and an object
C9_Witness ==
    /\ Called("normalizeItems")
    /\ arg.value = JArr(<<JNull, JObj([id |-> JStr("a")])>>)
    /\ Len(res.items) = 2
    /\ res.items[2].id = "a"

ProgrammeFields ==
    {"programmeTitle", "awardLevel", "department", "institution", "mappingDate", "version"}

ProgrammeDefault(k) ==
    CASE k = "mappingDate" -> todayISODate
      [] k = "version" -> "v0.1"
      [] OTHER -> ""

\* field-wise substitution for one element of the items array
ItemFieldwise(el, it, others) ==
    /\ DOMAIN it = {"id", "type", "name", "notes", "domains"}
    /\ IF IsStr(Get(el, "id")) THEN it.id = Get(el, "id").str
       ELSE IsUuid(it.id) /\ it.id \notin others
    /\ it.name = (IF IsStr(Get(el, "name")) THEN Get(el, "name").str ELSE "")
    /\ it.notes = (IF IsStr(Get(el, "notes")) THEN Get(el, "notes").str ELSE "")
    /\ it.type = (IF Get(el, "type") = JStr("Module") THEN "Module"
                  ELSE IF Get(el, "type") = JStr("Activity") THEN "Activity"
                  ELSE IF Get(el, "type") = JStr("Assessment") THEN "Assessment"
                  ELSE "Module")

\* C10: normalizeProgramme keeps each of the six fields exactly when the input
\* gives it as a string and substitutes the default otherwise; normalizeItems
\* keeps id, name and notes exactly when they are strings (else a fresh id,
\* an empty string) and the type exactly when it is one of the three literals
\* (else Module); no other field of the input is carried over.
C10_FieldwiseDefaults ==
    /\ Called("normalizeProgramme") =>
          /\ DOMAIN res.programme = ProgrammeFields
          /\ \A k \in ProgrammeFields :
                res.programme[k] =
                    (IF IsStr(Get(arg.value, k)) THEN Get(arg.value, k).str
                     ELSE ProgrammeDefault(k))
    /\ (Called("normalizeItems") /\ IsArr(arg.value) /\ Len(arg.value.arr) > 0) =>
          /\ Len(res.items) = Len(arg.value.arr)
          /\ \A i \in 1..Len(res.items) :
                ItemFieldwise(arg.value.arr[i], res.items[i],
                              {res.items[j].id : j \in 1..Len(res.items) \ {i}})

\* normalizeItems has run on an element whose type is a case variant and whose
\* id, name and notes are no strings
C10_Witness ==
    /\ Called("normalizeItems")
    /\ IsArr(arg.value)
    /\ Len(arg.value.arr) = 1
    /\ Get(arg.value.arr[1], "type") = JStr("module")
    /\ res.items[1].type = "Module"
    /\ res.items[1].name = ""

---------------------------------------------------------------------------
(* Properties of the exports and of the derived view (checked under Spec) *)

\* the tags that are set: the pairs <<i, k>> with item i holding a truthy
\* value under the registry key k
TaggedEntries(its) ==
    {e \in (1..Len(its)) \X DomainKeys :
        e[2] \in DOMAIN its[e[1]].domains /\ Truthy(its[e[1]].domains[e[2]])}

\* C11: a download is produced only from a state whose items carry at least
\* one domain tag: while no item has a tag set, neither Export JSON nor
\* Export Markdown hands a file to the browser; an export changes nothing.
C11_ExportsGated ==
    [][download' # NoDownload =>
          /\ TaggedEntries(items) # {}
          /\ UNCHANGED <<programme, items, localStorage>>]_vars

\* a Markdown file has been exported
C11_Witness ==
    /\ download # NoDownload
    /\ download.filename = chars("programme-mapping") \o <<"-">>
                           \o chars(todayISODate) \o chars(".md")
    /\ Len(items) = 2

\* the items whose tag under key k is the boolean true
ItemsTagged(its, k) ==
    {i \in 1..Len(its) : k \in DOMAIN its[i].domains /\ its[i].domains[k] = JBool(TRUE)}

\* every entry of every item's tag map that is set to true
TrueEntries(its) ==
    {e \in (1..Len(its)) \X UNION {DOMAIN its[i].domains : i \in 1..Len(its)} :
        e[1] \in ItemsTagged(its, e[2])}

\* C12: each of the six coverage counts is the number of items whose tag for
\* that key is true, and the six counts add up to the number of tag entries
\* set to true across all items, whatever list load or import produced.
C12_CoverageConserved ==
    \A cov \in {coverage(items)} :
        /\ \A k \in DomainKeys : cov[k] = JNum(Cardinality(ItemsTagged(items, k)))
        /\ totalDomainTags(cov) = JNum(Cardinality(TrueEntries(items)))

\* C13: the coverage mapping has the six canonical keys and no other, each
\* value a non-negative integer no greater than the number of items (never
\* undefined, never NaN).
C13_CoverageShape ==
    \A cov \in {coverage(items)} :
        /\ DOMAIN cov = DomainKeys
        /\ \A k \in DOMAIN cov :
              IsNum(cov[k]) /\ cov[k].num >= 0 /\ cov[k].num <= Len(items)

---------------------------------------------------------------------------
(* Properties of the derived view and of the export builders (checked      *)
(* under SpecView)                                                         *)

\* the number of items of the call's list that carry the tag of the i-th
\* domain of the registry
TagCount(i) == Cardinality(ItemsTagged(arg.items, DOMAINS[i]))

\* the lines of the result that are of the given kind
LinesOfKind(kind) ==
    {n \in 1..Len(res.observations) : res.observations[n].kind = kind}

\* C14: when some tag is set, the domain named most represented is the first
\* in registry order among the domains with the maximum count, and the
\* domains named most and least represented are two distinct domains, also
\* when all six counts are equal.
C14_MostLeastDeterministic ==
    Called("observations") /\ (\E i \in 1..Len(DOMAINS) : TagCount(i) > 0) =>
        /\ res.observations[2].kind = "most"
        /\ res.observations[3].kind = "least"
        /\ \E i \in 1..Len(DOMAINS) :
              /\ res.observations[2].domain = DOMAINS[i]
              /\ \A j \in 1..Len(DOMAINS) : TagCount(j) <= TagCount(i)
              /\ \A j \in 1..(i - 1) : TagCount(j) < TagCount(i)
        /\ res.observations[2].domain # res.observations[3].domain

\* all six counts are equal and positive: the first and the last domain of
\* the registry are named
C14_Witness ==
    /\ Called("observations")
    /\ \A i \in 1..Len(DOMAINS) : TagCount(i) = 2
    /\ res.observations[2].domain = "awareness"
    /\ res.observations[3].domain = "reflection"

\* C15: when no item has a tag set the observations are exactly three, in
\* order: the item count, the "no domain tags yet" invitation, the closing
\* sentence, and no most, least or zero-tagged domain is named. In every case
\* the first observation is the item count and the last is the closing one.
C15_ObservationFrame ==
    Called("observations") =>
        /\ res.observations[1] = LineItems(Len(arg.items))
        /\ res.observations[Len(res.observations)] = LineClosing
        /\ (\A i \in 1..Len(DOMAINS) : TagCount(i) = 0) =>
              /\ res.observations = <<LineItems(Len(arg.items)), LineNoTags, LineClosing>>
              /\ LinesOfKind("most") \cup LinesOfKind("least") \cup LinesOfKind("zero") = {}

\* two untagged items: three observations
C15_Witness ==
    /\ Called("observations")
    /\ Len(arg.items) = 2
    /\ \A i \in 1..Len(DOMAINS) : TagCount(i) = 0
    /\ Len(res.observations) = 3

\* the title of the call in lower case
LowerTitle == [i \in 1..Len(arg.programmeTitle) |-> toLowerCase(arg.programmeTitle[i])]

\* the positions of the title that show in its slug: every character of
\* a-z0-9, and the first character of a run of other characters when the run
\* has a character of a-z0-9 somewhere before it and somewhere after it
SlugPositions ==
    {i \in 1..Len(LowerTitle) :
        \/ IsAlnum(LowerTitle[i])
        \/ /\ i > 1 /\ IsAlnum(LowerTitle[i - 1])
           /\ \E j \in (i + 1)..Len(LowerTitle) : IsAlnum(LowerTitle[j])}

\* the slug the rule describes: the words of the title in lower case, one
\* hyphen between two words
SlugOfTitle ==
    LET position(n) == CHOOSE i \in SlugPositions :
                            Cardinality({j \in SlugPositions : j < i}) = n - 1
    IN  [n \in 1..Cardinality(SlugPositions) |->
            IF IsAlnum(LowerTitle[position(n)]) THEN LowerTitle[position(n)] ELSE "-"]

\* the slug part of the stem: the slug, or the fixed literal when it is empty
SlugPart == IF SlugOfTitle = <<>> THEN chars("programme-mapping") ELSE SlugOfTitle

\* C18 as stated: the stem is the slug of the title (the fixed literal
\* 'programme-mapping' when the slug is empty), a hyphen and the mapping date.
C18_StemIsSlugAndDate ==
    Called("exportStem") => res.stem = SlugPart \o <<"-">> \o arg.mappingDate

\* C18, amended: the stem is the slug of the title (the fixed literal
\* 'programme-mapping' when the slug is empty), a hyphen and the mapping date,
\* or today's date when the mapping date is empty; the slug holds only a-z,
\* 0-9 and single hyphens between them.
C18_StemWithDateFallback ==
    Called("exportStem") =>
        /\ res.stem = SlugPart \o <<"-">>
                      \o (IF arg.mappingDate = <<>> THEN chars(todayISODate)
                          ELSE arg.mappingDate)
        /\ \A n \in 1..Len(SlugPart) :
              \/ IsAlnum(SlugPart[n])
              \/ /\ SlugPart[n] = "-"
                 /\ 1 < n /\ n < Len(SlugPart)
                 /\ IsAlnum(SlugPart[n - 1]) /\ IsAlnum(SlugPart[n + 1])

\* the title 'MSc Public Health!!' with the date 2024-03-01
C18_Witness ==
    /\ Called("exportStem")
    /\ arg.programmeTitle = chars("MSc Public Health!!")
    /\ arg.mappingDate = chars("2024-03-01")
    /\ res.stem = <<"m", "s", "c", "-", "p", "u", "b", "l", "i", "c", "-",
                    "h", "e", "a", "l", "t", "h", "-",
                    "2", "0", "2", "4", "-", "0", "3", "-", "0", "1">>

\* the types of the three item sections of the report, in the claimed order
SectionTypes == <<"Module", "Activity", "Assessment">>

\* the positions of the call's list that hold an item of the given type
PositionsOfType(type) == {i \in 1..Len(arg.items) : arg.items[i].type = type}

\* the n-th smallest member of a set of positions
NthOf(positions, n) ==
    CHOOSE i \in positions : Cardinality({j \in positions : j < i}) = n - 1

\* the item cell of the card at position i, as its name is to be shown
NameCell(i) ==
    LET name == arg.items[i].name
    IN  CellText(CASE name = "Lab" -> <<"L", "a", "b">>
                   [] name = " Quiz " -> <<"Q", "u", "i", "z">>
                   [] name = "a|b" -> <<"a", "\\", "|", "b">>
                   [] name = "" -> <<"U", "n", "t", "i", "t", "l", "e", "d">>
                   [] name = "Seminar" -> <<"S", "e", "m", "i", "n", "a", "r">>)

\* the tag cell of an item: the short labels of its true tags in registry
\* order, or the none marker
TagCell(it) ==
    LET set == {j \in 1..Len(DOMAINS) : it.domains[DOMAINS[j]] = JBool(TRUE)}
    IN  IF set = {} THEN CellMarker("_None_")
        ELSE CellJoined([n \in 1..Cardinality(set) |-> short(DOMAINS[NthOf(set, n)])])

\* C19: the report has the three item sections Modules, Activities,
\* Assessments in that order; every item is a row of exactly one of them, the
\* section of its type; the rows of a section follow list order and are
\* numbered from 1; a row's tag cell lists the short labels of exactly the
\* item's true tags in registry order, or is the none marker.
C19_ReportSections ==
    Called("buildMarkdown") =>
        \A sections \in {res.markdown.items} :
            /\ [s \in 1..Len(sections) |-> sections[s].heading]
                  = <<"Modules", "Activities", "Assessments">>
            /\ Len(sections[1].rows) + Len(sections[2].rows) + Len(sections[3].rows)
                  = Len(arg.items)
            /\ \A s \in 1..3 :
                  /\ Len(sections[s].rows) = Cardinality(PositionsOfType(SectionTypes[s]))
                  /\ \A n \in 1..Len(sections[s].rows) :
                        \E i \in {NthOf(PositionsOfType(SectionTypes[s]), n)} :
                            /\ sections[s].rows[n].n = n
                            /\ sections[s].rows[n].item = NameCell(i)
                            /\ sections[s].rows[n].tags = TagCell(arg.items[i])

\* a module, an activity tagged awareness and ethics, a second module
C19_Witness ==
    /\ Called("buildMarkdown")
    /\ [i \in 1..Len(arg.items) |-> arg.items[i].type] = <<"Module", "Activity", "Module">>
    /\ res.markdown.items[2].rows[1].tags = CellJoined(<<"Awareness", "Ethics">>)
    /\ res.markdown.items[1].rows[2].n = 2
    /\ res.markdown.items[1].rows[2].tags = CellMarker("_None_")
    /\ res.markdown.items[3].none

---------------------------------------------------------------------------
(* Properties of the application, continued (checked under Spec) *)

\* an import of the text, confirmed, sets exactly programme p and items its
ImportGives(text, p, its) ==
    \A out \in {importOutcome(text, TRUE)} :
        out.set /\ out.programme = p /\ out.items = its

\* C16: a state with at least one item survives the round trip: its persisted
\* record, loaded, and its export payload and its bare {programme, items}
\* record, imported, each give the same programme fields and the same items
\* in the same order, with the same id, type, name, notes and tags.
C16_RoundTrip ==
    items # <<>> =>
        /\ loadState(localStorage) = [programme |-> programme, items |-> items]
        /\ ImportGives(exportPayload(programme, items), programme, items)
        /\ ImportGives(JSONStringify(programme, items), programme, items)

\* the state has been exported as JSON: a title, two items, a name, a tag
C16_Witness ==
    /\ download # NoDownload
    /\ download.content = exportPayload(programme, items)
    /\ programme.programmeTitle = "MSc Public Health!!"
    /\ Len(items) = 2
    /\ items[2].name = "Seminar"
    /\ items[1].domains["ethics"] = JBool(TRUE)

\* C17: the ids of the items are pairwise different in every reachable state.
C17_IdsUnique ==
    \A i, j \in 1..Len(items) : items[i].id = items[j].id => i = j

\* the positions at which the list differs after the step
Changed == {i \in 1..Len(items) : i > Len(items') \/ items'[i] # items[i]}

\* the list after the step is the list with the one position i taken out
RemovedAt(i) ==
    /\ Len(items') = Len(items) - 1
    /\ \A j \in 1..Len(items') : items'[j] = items[IF j < i THEN j ELSE j + 1]

\* C20: toggleDomain flips one key of one item, updateItem changes one item,
\* removeItem takes exactly one item out of the list; the other items, their
\* order and the programme details stay as they are.
C20_SingleItemFrame ==
    [][/\ \A id \in itemIds(items), key \in ToggleKeys :
             toggleDomain(id, key) =>
                 /\ programme' = programme /\ Len(items') = Len(items)
                 /\ \E i \in 1..Len(items) :
                       /\ Changed = {i} /\ items[i].id = id
                       /\ items'[i] = [items[i] EXCEPT !.domains[key] = items'[i].domains[key]]
                       /\ Truthy(items'[i].domains[key]) # Truthy(items[i].domains[key])
       /\ \A id \in itemIds(items), patch \in ItemPatches :
             updateItem(id, patch) =>
                 /\ programme' = programme /\ Len(items') = Len(items)
                 /\ \E i \in 1..Len(items) : Changed \subseteq {i} /\ items[i].id = id
       /\ \A id \in itemIds(items) :
             removeItem(id) =>
                 /\ programme' = programme
                 /\ \E i \in 1..Len(items) : items[i].id = id /\ RemovedAt(i)]_vars

====
